---------------------------- MODULE Spec2Model ----------------------------
(***************************************************************************)
(* A model of the integer-factorization and primality-testing toolkit of   *)
(* cryptAI: the numeric primitives (whole_number_operations.py), the       *)
(* Miller-Rabin oracle (primality_tests.py), the factorization algorithms  *)
(* (factorization_methods.py), the continued fractions                     *)
(* (rational_number_operations.py) and the attack orchestrator             *)
(* (cryptanalytic_attacks.py).                                             *)
(*                                                                         *)
(* Python values are modelled as follows.  An int is an Int.  The outcome  *)
(* of a call is a tuple: Ok(v) when the call returns v, NoneVal when it    *)
(* returns None, Raise(e) when the exception named e leaves the call.      *)
(* A Python list of two ints is a pair <<p, q>>.  Arguments and locals are *)
(* tuples, read through the accessors defined next to each operation.      *)
(***************************************************************************)
EXTENDS Integers, Sequences, FiniteSets, TLC

VARIABLES
    op,     \* the operation the caller has invoked ("none" before the first call)
    arg,    \* the arguments of that call (a tuple)
    pc,     \* position inside the running operation: "idle", a loop label, "done"
    loc,    \* the local variables of the running operation (a tuple)
    ret     \* the outcome of the call once pc = "done"

vars == <<op, arg, pc, loc, ret>>

-----------------------------------------------------------------------------
(* Outcomes of a call *)

Ok(v) == <<"ok", v>>

Raise(e) == <<"raise", e>>

NoneVal == <<"none">>

Kind(r) == r[1]

Val(r) == r[2]

IsOk(r) == Kind(r) = "ok"

IsRaise(r) == Kind(r) = "raise"

IsNone(r) == Kind(r) = "none"

NoLocals == <<>>

-----------------------------------------------------------------------------
(* Bounds of the model *)

\* integer_sqrt is called on 0..MaxSqrt (and on -1, to hit the validation)
MaxSqrt == 40

\* fast_powering_algorithm is called with base in 0..MaxBase
MaxBase == 3

\* fast_powering_algorithm is called with modulus in 0..MaxModulus (and 1000)
MaxModulus == 4

\* the Miller-Rabin operations are called with n in 1..MaxOracle (and 341)
MaxOracle == 12

\* fermat_factorization is called with n in 0..MaxFermat (and 5959)
MaxFermat == 60

\* the oracle-guarded factorizations are called with N in 0..MaxComposite
\* (pollard_rho_factorization also with 8051)
MaxComposite == 30

\* continued_fraction_factorization is called with e in 0..MaxExponent
MaxExponent == 24

\* continued_fraction_factorization is called with N in 0..MaxRsaModulus
MaxRsaModulus == 20

\* evaluate_public_key is called with lists of at most MaxAlgorithms identifiers
MaxAlgorithms == 2

\* MAX_ITERATIONS of pollard_rho_factorization (1000000 in the source), scaled
\* down so that the exhausted budget is reached
RHO_MAX_ITERATIONS == 6

\* UPPER_BOUND of pollard_p_1_factorization and williams_p_1_factorization
\* (1000000 in the source), scaled down so that the exhausted budget is reached
UPPER_BOUND == 7

\* greatest_common_divisor is called with a and b in -1..MaxGcd
MaxGcd == 12

\* find_modular_inverse is called with a and m in 0..MaxInverse
MaxInverse == 12

\* chinese_remainder_theorem is called with at most MaxCrtLen moduli, each in
\* 1..MaxCrtModulus
MaxCrtLen == 3

MaxCrtModulus == 5

\* sieve_of_eratosthenes is called with N in -1..MaxLimit
MaxLimit == 31

\* miller_rabin_get_prime is called with limits in 0..MaxPrimeRange
MaxPrimeRange == 5

\* MAX_ITERATIONS of miller_rabin_get_prime (10000 in the source, scaled down)
GET_PRIME_MAX_ITERATIONS == 3

\* the deterministic primality tests are called with n in 0..MaxPrimalityInput
MaxPrimalityInput == 50

\* the RSA keys with a small private exponent are built from primes up to
\* MaxWienerPrime
MaxWienerPrime == 233

\* and from private exponents d in 2..MaxWienerExponent
MaxWienerExponent == 5

\* the convergents are computed for num and denom in 0..MaxFraction
MaxFraction == 12

-----------------------------------------------------------------------------
(* whole_number_operations.py *)

RECURSIVE bit_length(_)
\* int.bit_length(): the number of binary digits of N >= 0
bit_length(N) == IF N = 0 THEN 0 ELSE 1 + bit_length(N \div 2)

RECURSIVE Pow(_, _)
\* Python's b ** e on ints, e >= 0 (0 ** 0 is 1)
Pow(b, e) == IF e = 0 THEN 1 ELSE b * Pow(b, e - 1)

\* absolute_value(n)
absolute_value(n) == IF n >= 0 THEN n ELSE -n

\* MAX_ITERATIONS of integer_sqrt
SQRT_MAX_ITERATIONS == 1000

RECURSIVE integer_sqrt_loop(_, _, _)
\* The for loop of integer_sqrt: round i with the current guess.
\* N // guess raises ZeroDivisionError when guess is 0; the loop returns
\* new_guess (not guess) as soon as new_guess >= guess.
integer_sqrt_loop(N, guess, i) ==
    IF i = SQRT_MAX_ITERATIONS THEN Raise("RuntimeError")
    ELSE IF guess = 0 THEN Raise("ZeroDivisionError")
    ELSE LET new_guess == (guess + N \div guess) \div 2
         IN  IF new_guess >= guess THEN Ok(new_guess)
             ELSE integer_sqrt_loop(N, new_guess, i + 1)

\* integer_sqrt(N)
integer_sqrt(N) ==
    IF N < 0 THEN Raise("ValueError")
    ELSE integer_sqrt_loop(N, Pow(2, (bit_length(N) + 1) \div 2), 0)

\* is_square(n): integer_sqrt(n)**2 == n
is_square(n) ==
    IF n < 0 THEN Raise("ValueError")
    ELSE LET r == integer_sqrt(n)
         IN  IF IsRaise(r) THEN r ELSE Ok(Val(r) * Val(r) = n)

RECURSIVE gcd_loop(_, _)
\* while a != 0: a, b = b % a, a
gcd_loop(a, b) == IF a = 0 THEN b ELSE gcd_loop(b % a, a)

\* greatest_common_divisor with the loop written while a != 0 and b != 0 and
\* the result read from b: a zero argument ends the loop with b untouched
greatest_common_divisor_zero_stops(a, b) ==
    IF a < 0 \/ b < 0 THEN Raise("ValueError")
    ELSE IF b = 0 THEN Ok(0)
    ELSE Ok(gcd_loop(a, b))

\* greatest_common_divisor(a, b)
greatest_common_divisor(a, b) ==
    IF a < 0 \/ b < 0 THEN Raise("ValueError") ELSE Ok(gcd_loop(a, b))

RECURSIVE binary_digits(_)
\* the binary digits of exponent, least significant first ('' for 0)
binary_digits(exponent) ==
    IF exponent = 0 THEN <<>>
    ELSE <<exponent % 2>> \o binary_digits(exponent \div 2)

RECURSIVE zero_pad(_, _)
\* pad a reversed digit string with high-order zeros up to the width
zero_pad(digits, width) ==
    IF Len(digits) >= width THEN digits ELSE zero_pad(Append(digits, 0), width)

\* exponents = [int(bit) for bit in f'{exponent:08b}'[::-1]]
exponent_bits(exponent) == zero_pad(binary_digits(exponent), 8)

RECURSIVE fast_powering_loop(_, _, _, _, _)
\* for i in range(1, len(binary_N)): exponents is 1-indexed here, so the
\* source's exponents[i] is exponents[i + 1]
fast_powering_loop(exponents, modulus, power_of_base, value, i) ==
    IF i >= Len(exponents) THEN value
    ELSE LET p == (power_of_base * power_of_base) % modulus
         IN  fast_powering_loop(exponents, modulus, p,
                                (value * Pow(p, exponents[i + 1])) % modulus,
                                i + 1)

\* fast_powering_algorithm with the loop written range(1, len(binary_N) - 1):
\* the highest of the eight binary digits is never processed
fast_powering_algorithm_short_range(base, exponent, modulus) ==
    IF exponent < 0 \/ modulus < 0 THEN Raise("ValueError")
    ELSE IF modulus = 0 THEN Raise("ZeroDivisionError")
    ELSE LET exponents == exponent_bits(exponent)
         IN  Ok(fast_powering_loop(SubSeq(exponents, 1, Len(exponents) - 1),
                                   modulus, base, Pow(base, exponents[1]), 1))

\* fast_powering_algorithm with the digits written f'{exponent:08b}'[-8:]:
\* only the low eight binary digits of the exponent are processed
fast_powering_algorithm_low_eight_bits(base, exponent, modulus) ==
    IF exponent < 0 \/ modulus < 0 THEN Raise("ValueError")
    ELSE IF modulus = 0 THEN Raise("ZeroDivisionError")
    ELSE LET exponents == SubSeq(exponent_bits(exponent), 1, 8)
         IN  Ok(fast_powering_loop(exponents, modulus, base,
                                   Pow(base, exponents[1]), 1))

\* fast_powering_algorithm(base, exponent, modulus)
fast_powering_algorithm(base, exponent, modulus) ==
    IF exponent < 0 \/ modulus < 0 THEN Raise("ValueError")
    ELSE IF modulus = 0 THEN Raise("ZeroDivisionError")
    ELSE LET exponents == exponent_bits(exponent)
         IN  Ok(fast_powering_loop(exponents, modulus, base,
                                   Pow(base, exponents[1]), 1))

RECURSIVE extended_euclid_loop(_, _, _, _, _, _)
\* while v3 != 0: q = u3 // v3; v1, v2, v3, u1, u2, u3 = (u1 - q * v1),
\* (u2 - q * v2), (u3 - q * v3), v1, v2, v3      gives u1 when the loop ends
extended_euclid_loop(u1, u2, u3, v1, v2, v3) ==
    IF v3 = 0 THEN u1
    ELSE LET q == u3 \div v3
         IN  extended_euclid_loop(v1, v2, v3,
                                  u1 - q * v1, u2 - q * v2, u3 - q * v3)

\* find_modular_inverse with the last line written return u1: the Bezout
\* coefficient is handed back as the loop leaves it
find_modular_inverse_unreduced(a, m) ==
    IF a < 1 \/ m < 1 THEN Raise("ValueError")
    ELSE IF Val(greatest_common_divisor(a, m)) # 1 THEN NoneVal
    ELSE Ok(extended_euclid_loop(1, 0, a, 0, 1, m))

\* find_modular_inverse(a, m)
find_modular_inverse(a, m) ==
    IF a < 1 \/ m < 1 THEN Raise("ValueError")
    ELSE IF Val(greatest_common_divisor(a, m)) # 1 THEN NoneVal
    ELSE Ok(extended_euclid_loop(1, 0, a, 0, 1, m) % m)

\* the validation loop of chinese_remainder_theorem finds an entry to reject
crt_invalid_entry(moduli, remainders) ==
    \E i \in 1..Len(moduli) :
        \/ moduli[i] < 1
        \/ remainders[i] < 0
        \/ remainders[i] >= moduli[i]

RECURSIVE crt_product(_, _, _, _)
\* for j in range(len(moduli)): if i == j: continue; product *= moduli[j]
crt_product(moduli, i, j, product) ==
    IF j > Len(moduli) THEN product
    ELSE crt_product(moduli, i, j + 1,
                     IF i = j THEN product ELSE product * moduli[j])

RECURSIVE crt_loop(_, _, _, _, _)
\* for i in range(len(moduli)): the outcome of the function once the loop is
\* left; a None from find_modular_inverse makes the multiplication raise
\* TypeError
crt_loop(moduli, remainders, i, new_modulus, x) ==
    IF i > Len(moduli) THEN Ok(<<x, new_modulus>>)
    ELSE LET product == crt_product(moduli, i, 1, 1)
             inverse == find_modular_inverse(product, moduli[i])
         IN  IF IsRaise(inverse) THEN inverse
             ELSE IF IsNone(inverse) THEN Raise("TypeError")
             ELSE crt_loop(moduli, remainders, i + 1, new_modulus * moduli[i],
                           x + remainders[i] * product * Val(inverse))

\* chinese_remainder_theorem with the last line written return x
chinese_remainder_theorem_unreduced(moduli, remainders) ==
    IF Len(moduli) # Len(remainders) THEN Raise("ValueError")
    ELSE IF crt_invalid_entry(moduli, remainders) THEN Raise("ValueError")
    ELSE LET r == crt_loop(moduli, remainders, 1, 1, 0)
         IN  IF IsRaise(r) THEN r ELSE Ok(Val(r)[1])

\* chinese_remainder_theorem(moduli, remainders)
chinese_remainder_theorem(moduli, remainders) ==
    IF Len(moduli) # Len(remainders) THEN Raise("ValueError")
    ELSE IF crt_invalid_entry(moduli, remainders) THEN Raise("ValueError")
    ELSE LET r == crt_loop(moduli, remainders, 1, 1, 0)
         IN  IF IsRaise(r) THEN r ELSE Ok(Val(r)[1] % Val(r)[2])

-----------------------------------------------------------------------------
(* prime_number_sieves.py *)

RECURSIVE ceil_sqrt_from(_, _)
\* the least r >= from with r * r >= N
ceil_sqrt_from(N, from) ==
    IF from * from >= N THEN from ELSE ceil_sqrt_from(N, from + 1)

\* math.ceil(math.sqrt(N)) for N >= 0 (the float square root is exact enough
\* for the ceiling at the sizes used here)
ceil_sqrt(N) == ceil_sqrt_from(N, 0)

\* math.ceil(a / b) for b > 0
ceil_div(a, b) == -((-a) \div b)

\* [i*i + i*k for k in range(math.ceil((N - i*i) / i))]
multiples_to_strike(N, i) ==
    {i * i + i * k : k \in 0..(ceil_div(N - i * i, i) - 1)}

RECURSIVE sieve_loop(_, _, _, _)
\* for i in range(2, stop): when is_prime[i] holds, is_prime[j] = False for
\* every j of the list above; an index outside the list raises IndexError
sieve_loop(is_prime, N, i, stop) ==
    IF i >= stop THEN Ok(is_prime)
    ELSE IF ~is_prime[i] THEN sieve_loop(is_prime, N, i + 1, stop)
    ELSE IF \E j \in multiples_to_strike(N, i) : j >= N
         THEN Raise("IndexError")
    ELSE sieve_loop([index \in 0..(N - 1) |->
                        is_prime[index] /\ index \notin multiples_to_strike(N, i)],
                    N, i + 1, stop)

RECURSIVE sieve_collect(_, _, _)
\* [index for index, prime in enumerate(is_prime) if prime and index > 1]
sieve_collect(is_prime, N, index) ==
    IF index >= N THEN <<>>
    ELSE IF is_prime[index] /\ index > 1
         THEN <<index>> \o sieve_collect(is_prime, N, index + 1)
    ELSE sieve_collect(is_prime, N, index + 1)

\* the body of sieve_of_eratosthenes with the outer loop range(2, stop):
\* [True] * N is the empty list for N <= 0
sieve_body(N, stop) ==
    LET marked == sieve_loop([index \in 0..(N - 1) |-> TRUE], N, 2, stop)
    IN  IF IsRaise(marked) THEN marked
        ELSE Ok(sieve_collect(Val(marked), N, 0))

\* sieve_of_eratosthenes with the outer loop written
\* range(2, math.floor(math.sqrt(N))): the last base is never struck
sieve_of_eratosthenes_floor_sqrt(N) ==
    IF N < 0 THEN Raise("ValueError")
    ELSE sieve_body(N, IF ceil_sqrt(N) * ceil_sqrt(N) = N THEN ceil_sqrt(N)
                       ELSE ceil_sqrt(N) - 1)

\* sieve_of_eratosthenes(N): math.sqrt raises ValueError for N < 0
sieve_of_eratosthenes(N) ==
    IF N < 0 THEN Raise("ValueError")
    ELSE sieve_body(N, ceil_sqrt(N))

-----------------------------------------------------------------------------
(* whole_number_operations.py: integer_quadratic_formula *)

\* integer_quadratic_formula(a, b, c): the pair of floored roots, largest first
integer_quadratic_formula(a, b, c) ==
    IF a = 0 THEN Raise("ValueError")
    ELSE IF b * b - 4 * a * c < 0 THEN Raise("ValueError")
    ELSE LET s == integer_sqrt(b * b - 4 * a * c)
         IN  IF IsRaise(s) THEN s
             ELSE Ok(<<(-b + Val(s)) \div (2 * a), (-b - Val(s)) \div (2 * a)>>)

-----------------------------------------------------------------------------
(* rational_number_operations.py *)

RECURSIVE continued_fraction_loop(_, _, _)
\* while remainder != 0: num, denom = denom, remainder; append num // denom
continued_fraction_loop(denom, remainder, result) ==
    IF remainder = 0 THEN result
    ELSE continued_fraction_loop(remainder, denom % remainder,
                                 Append(result, denom \div remainder))

\* continued_fraction_expansion(num, denom)
continued_fraction_expansion(num, denom) ==
    IF num <= 0 \/ denom <= 0 THEN Raise("ValueError")
    ELSE Ok(continued_fraction_loop(denom, num % denom, <<num \div denom>>))

RECURSIVE convergents_loop(_, _, _, _)
\* for i in range(2, len(continued_fraction)): h and k grow by one term each;
\* i is the 1-based index of the next term of continued_fraction
convergents_loop(continued_fraction, h, k, i) ==
    IF i > Len(continued_fraction) THEN [j \in 1..Len(h) |-> <<h[j], k[j]>>]
    ELSE convergents_loop(continued_fraction,
             Append(h, continued_fraction[i] * h[i - 1] + h[i - 2]),
             Append(k, continued_fraction[i] * k[i - 1] + k[i - 2]),
             i + 1)

\* get_continued_fraction_convergents(continued_fraction): h and k are seeded
\* from continued_fraction[0] and continued_fraction[1] without a length check
get_continued_fraction_convergents(continued_fraction) ==
    IF Len(continued_fraction) = 0 THEN Raise("ValueError")
    ELSE IF Len(continued_fraction) = 1 THEN Raise("IndexError")
    ELSE Ok(convergents_loop(continued_fraction,
                <<continued_fraction[1],
                  continued_fraction[1] * continued_fraction[2] + 1>>,
                <<1, continued_fraction[2]>>, 3))

-----------------------------------------------------------------------------
(* primality_tests.py *)

\* trial_division_primality_test(n): the divisors tried are range(2, limit)
trial_division_primality_test(n) ==
    IF n <= 1 THEN Raise("ValueError")
    ELSE IF n <= 3 THEN Ok(n > 1)
    ELSE LET limit == integer_sqrt(n)
         IN  IF IsRaise(limit) THEN limit
             ELSE Ok(~\E i \in 2..(Val(limit) - 1) : n % i = 0)

\* sixk_plus_one_primality_test(n): after 2 and 3, the divisors tried are i and
\* i + 2 for i in range(5, limit + 1, 6)
sixk_plus_one_primality_test(n) ==
    IF n <= 1 THEN Raise("ValueError")
    ELSE IF n <= 3 THEN Ok(n > 1)
    ELSE IF n % 2 = 0 \/ n % 3 = 0 THEN Ok(FALSE)
    ELSE LET limit == integer_sqrt(n)
         IN  IF IsRaise(limit) THEN limit
             ELSE Ok(~\E i \in 5..Val(limit) :
                        (i - 5) % 6 = 0 /\ (n % i = 0 \/ n % (i + 2) = 0))

\* primes_only_primality_test(n): the divisors tried are the primes of
\* sieve_of_eratosthenes(integer_sqrt(n))
primes_only_primality_test(n) ==
    IF n <= 1 THEN Raise("ValueError")
    ELSE IF n <= 3 THEN Ok(n > 1)
    ELSE LET limit == integer_sqrt(n)
         IN  IF IsRaise(limit) THEN limit
             ELSE LET primes_up_to_sqrt_n == sieve_of_eratosthenes(Val(limit))
                  IN  IF IsRaise(primes_up_to_sqrt_n) THEN primes_up_to_sqrt_n
                      ELSE Ok(~\E j \in 1..Len(Val(primes_up_to_sqrt_n)) :
                                 n % Val(primes_up_to_sqrt_n)[j] = 0)

\* a local variable of a function body: bound to a value, or not yet assigned
Bound(v) == <<v>>

Unbound == <<>>

RECURSIVE odd_part_loop(_, _)
\* while oddPart % 2 == 0: k += 1; oddPart = oddPart // 2      gives <<k, oddPart>>
odd_part_loop(k, oddPart) ==
    \* (oddPart = 0, that is n = 1, would never leave the loop; it is not reached,
    \* the read of potentialWitness raises first)
    IF oddPart % 2 = 0 /\ oddPart # 0 THEN odd_part_loop(k + 1, oddPart \div 2)
    ELSE <<k, oddPart>>

RECURSIVE witness_squaring_loop(_, _, _, _)
\* for i in range(k): return False when -1 % n == potentialWitness, else square
witness_squaring_loop(n, k, potentialWitness, i) ==
    IF i = k THEN TRUE
    ELSE IF (n - 1) % n = potentialWitness THEN FALSE
    ELSE witness_squaring_loop(n, k, (potentialWitness * potentialWitness) % n, i + 1)

\* The body of miller_rabin_witness_for_compositeness, given the binding of its
\* local variable potentialWitness on entry.
witness_body(n, potentialWitness) ==
    IF n % 2 = 0 THEN Ok(TRUE)
    ELSE IF potentialWitness = Unbound THEN Raise("UnboundLocalError")
    ELSE LET g == greatest_common_divisor(n, potentialWitness[1])
         IN  IF IsRaise(g) THEN g
             ELSE IF Val(g) # 1 THEN Ok(TRUE)
             ELSE LET ko == odd_part_loop(0, n - 1)
                      pw == fast_powering_algorithm(potentialWitness[1], ko[2], n)
                  IN  IF IsRaise(pw) THEN pw
                      ELSE IF (Val(pw) - 1) % n = 0 THEN Ok(FALSE)
                      ELSE Ok(witness_squaring_loop(n, ko[1], Val(pw), 0))

\* miller_rabin_witness_for_compositeness(n, potential_witness): the parameter
\* is named potential_witness, the body reads potentialWitness, which is a local
\* of the function (assigned further down) and so is unbound at its first read.
miller_rabin_witness_for_compositeness(n, potential_witness) ==
    witness_body(n, Unbound)

\* the default of num_potential_witnesses
DEFAULT_POTENTIAL_WITNESSES == 100

\* randint(2, n): the values a draw can give (both ends included)
randint_candidates(n) == 2..n

-----------------------------------------------------------------------------
(* factorization_methods.py: continued_fraction_factorization *)

RECURSIVE continued_fraction_scan(_, _, _, _)
\* for num, denom in convergents: the first convergent whose quadratic has
\* roots p, q with p * q == N gives [p, q]; an exception of the quadratic
\* formula leaves the function; None when the convergents run out
continued_fraction_scan(e, N, convergents, j) ==
    IF j > Len(convergents) THEN NoneVal
    ELSE LET num == convergents[j][1]
             denom == convergents[j][2]
         IN  IF num = 0 THEN continued_fraction_scan(e, N, convergents, j + 1)
             ELSE LET roots == integer_quadratic_formula(
                                   1, ((e * denom - 1) \div num) - N - 1, N)
                  IN  IF IsRaise(roots) THEN roots
                      ELSE IF Val(roots)[1] * Val(roots)[2] = N THEN Ok(Val(roots))
                      ELSE continued_fraction_scan(e, N, convergents, j + 1)

\* continued_fraction_factorization expanding N / e instead of e / N
continued_fraction_factorization_swapped(e, N) ==
    IF e <= 0 \/ N <= 0 THEN Raise("ValueError")
    ELSE LET expansion == continued_fraction_expansion(N, e)
         IN  IF IsRaise(expansion) THEN expansion
             ELSE LET convergents == get_continued_fraction_convergents(Val(expansion))
                  IN  IF IsRaise(convergents) THEN convergents
                      ELSE continued_fraction_scan(e, N, Val(convergents), 1)

\* continued_fraction_factorization(e, N)
continued_fraction_factorization(e, N) ==
    IF e <= 0 \/ N <= 0 THEN Raise("ValueError")
    ELSE LET expansion == continued_fraction_expansion(e, N)
         IN  IF IsRaise(expansion) THEN expansion
             ELSE LET convergents == get_continued_fraction_convergents(Val(expansion))
                  IN  IF IsRaise(convergents) THEN convergents
                      ELSE continued_fraction_scan(e, N, Val(convergents), 1)

-----------------------------------------------------------------------------
(* cryptanalytic_attacks.py: factorization_attack *)

\* the identifiers factorization_attack accepts
VALID_ALGORITHMS ==
    {"trial_division", "pollard_rho", "pollard_p_1", "williams_p_1", "fermat",
     "shanks_square_forms", "rational_sieve", "quadratic_sieve",
     "general_number_field_sieve"}

\* the factorization functions the module imports from factorization_methods
IMPORTED_FUNCTIONS ==
    {"fermat_factorization", "trial_division_factorization",
     "pollard_rho_factorization", "pollard_p_1_factorization",
     "williams_p_1_factorization"}

\* the function names the dictionary literal factorization_algorithms reads
DISPATCH_TABLE ==
    {"trial_division_factorization", "pollard_rho_factorization",
     "pollard_p_1_factorization", "williams_p_1_factorization",
     "fermat_factorization", "rational_sieve", "quadratic_sieve_factorization",
     "general_number_field_sieve"}

\* the keys of the dictionary literal factorization_algorithms
DISPATCH_KEYS == VALID_ALGORITHMS \ {"shanks_square_forms"}

\* the keys whose function takes a second positional parameter
TWO_PARAMETER_KEYS ==
    {"pollard_rho", "pollard_p_1", "williams_p_1", "rational_sieve"}

\* factorization_attack(n, algo) up to the call of the selected algorithm:
\* the outcome when it ends before that call, or <<"invoke", algo>> when the
\* algorithm is called with (n, max_iterations).  Building the dictionary reads
\* every name of DISPATCH_TABLE, and a name that is not bound raises NameError.
factorization_attack(n, algo) ==
    IF n <= 0 THEN Raise("ValueError")
    ELSE IF algo \notin VALID_ALGORITHMS THEN Raise("ValueError")
    ELSE IF ~(DISPATCH_TABLE \subseteq IMPORTED_FUNCTIONS) THEN Raise("NameError")
    ELSE IF algo \notin DISPATCH_KEYS THEN Raise("KeyError")
    ELSE IF algo \notin TWO_PARAMETER_KEYS THEN Raise("TypeError")
    ELSE <<"invoke", algo>>

-----------------------------------------------------------------------------
(* The caller: one call at a time, each started from "idle" *)

Init ==
    /\ op = "none"
    /\ arg = <<>>
    /\ pc = "idle"
    /\ loc = NoLocals
    /\ ret = NoneVal

CanCall == pc = "idle"

\* the call ends with outcome r
Finish(r) ==
    /\ pc' = "done"
    /\ ret' = r

\* a call of a function without observable intermediate steps
Atomic(name, a, r) ==
    /\ op' = name
    /\ arg' = a
    /\ loc' = NoLocals
    /\ Finish(r)

\* the caller takes the outcome; nothing of the call survives it
Return ==
    /\ pc = "done"
    /\ op' = "none"
    /\ arg' = <<>>
    /\ pc' = "idle"
    /\ loc' = NoLocals
    /\ ret' = NoneVal

-----------------------------------------------------------------------------
(* Calls of the numeric primitives *)

Call_integer_sqrt ==
    /\ CanCall
    /\ \E N \in -1..MaxSqrt :
           Atomic("integer_sqrt", <<N>>, integer_sqrt(N))

\* exponents of more than eight binary digits
LargeExponents == {256, 257, 300, 511, 1000}

PoweringInputs ==
    ((0..MaxBase) \X ((0..255) \cup LargeExponents) \X (0..MaxModulus))
        \cup {<<2, 10, 1000>>, <<2, 300, 1000>>}

Call_fast_powering_algorithm ==
    /\ CanCall
    /\ \E t \in PoweringInputs :
           Atomic("fast_powering_algorithm", t,
                  fast_powering_algorithm(t[1], t[2], t[3]))

Call_is_square ==
    /\ CanCall
    /\ \E n \in -1..MaxSqrt :
           Atomic("is_square", <<n>>, is_square(n))

Call_greatest_common_divisor ==
    /\ CanCall
    /\ \E a \in -1..MaxGcd : \E b \in -1..MaxGcd :
           Atomic("greatest_common_divisor", <<a, b>>,
                  greatest_common_divisor(a, b))

Call_find_modular_inverse ==
    /\ CanCall
    /\ \E a \in 0..MaxInverse : \E m \in 0..MaxInverse :
           Atomic("find_modular_inverse", <<a, m>>, find_modular_inverse(a, m))

\* the lists of moduli chinese_remainder_theorem is called with
CrtModuli == UNION {[1..len -> 1..MaxCrtModulus] : len \in 0..MaxCrtLen}

\* the lists of remainders that pass the validation against moduli
CrtRemainders(moduli) ==
    {r \in [1..Len(moduli) -> 0..(MaxCrtModulus - 1)] :
        \A i \in 1..Len(moduli) : r[i] < moduli[i]}

\* calls the validation rejects: lengths that differ, a modulus of 0, a
\* remainder equal to its modulus, a negative remainder
CrtRejectedInputs ==
    {<<<<3, 5>>, <<2>>>>, <<<<3, 0>>, <<2, 0>>>>,
     <<<<3, 5>>, <<3, 0>>>>, <<<<3, 5>>, <<-1, 0>>>>}

Call_chinese_remainder_theorem ==
    /\ CanCall
    /\ \/ \E moduli \in CrtModuli : \E remainders \in CrtRemainders(moduli) :
              Atomic("chinese_remainder_theorem", <<moduli, remainders>>,
                     chinese_remainder_theorem(moduli, remainders))
       \/ \E t \in CrtRejectedInputs :
              Atomic("chinese_remainder_theorem", t,
                     chinese_remainder_theorem(t[1], t[2]))

Call_sieve_of_eratosthenes ==
    /\ CanCall
    /\ \E N \in -1..MaxLimit :
           Atomic("sieve_of_eratosthenes", <<N>>, sieve_of_eratosthenes(N))

IsPrime(n) == n >= 2 /\ \A d \in 2..(n - 1) : n % d # 0

WienerPrimes == {p \in 3..MaxWienerPrime : IsPrime(p)}

\* <<p, q, d, k>>: an RSA key N = p * q with q < p < 2q whose private exponent
\* d is below N^(1/4) / 3 (81 * d^4 < N) and whose public exponent e has
\* e * d = 1 + k * phi, so that 1 < e < phi and e * d mod phi = 1
WienerInstances ==
    {w \in WienerPrimes \X WienerPrimes \X (2..MaxWienerExponent)
                \X (1..(MaxWienerExponent - 1)) :
        /\ w[2] < w[1]
        /\ w[1] < 2 * w[2]
        /\ 81 * w[3] * w[3] * w[3] * w[3] < w[1] * w[2]
        /\ w[4] < w[3]
        /\ (1 + w[4] * (w[1] - 1) * (w[2] - 1)) % w[3] = 0
        /\ (1 + w[4] * (w[1] - 1) * (w[2] - 1)) \div w[3] > 1}

\* the public key <<e, N>> of an instance
WienerKey(w) == <<(1 + w[4] * (w[1] - 1) * (w[2] - 1)) \div w[3], w[1] * w[2]>>

WienerKeys == {WienerKey(w) : w \in WienerInstances}

CfInputs == ((0..MaxExponent) \X (0..MaxRsaModulus)) \cup WienerKeys

Call_continued_fraction_factorization ==
    /\ CanCall
    /\ \E t \in CfInputs :
           Atomic("continued_fraction_factorization", t,
                  continued_fraction_factorization(t[1], t[2]))

\* continued_fraction_expansion(num, denom) handed to
\* get_continued_fraction_convergents
convergents_of_fraction(num, denom) ==
    LET expansion == continued_fraction_expansion(num, denom)
    IN  IF IsRaise(expansion) THEN expansion
        ELSE get_continued_fraction_convergents(Val(expansion))

Call_get_continued_fraction_convergents ==
    /\ CanCall
    /\ \E num \in 0..MaxFraction : \E denom \in 0..MaxFraction :
           Atomic("get_continued_fraction_convergents", <<num, denom>>,
                  convergents_of_fraction(num, denom))

-----------------------------------------------------------------------------
(* Calls of the deterministic primality tests *)

Call_trial_division_primality_test ==
    /\ CanCall
    /\ \E n \in 0..MaxPrimalityInput :
           Atomic("trial_division_primality_test", <<n>>,
                  trial_division_primality_test(n))

Call_sixk_plus_one_primality_test ==
    /\ CanCall
    /\ \E n \in 0..MaxPrimalityInput :
           Atomic("sixk_plus_one_primality_test", <<n>>,
                  sixk_plus_one_primality_test(n))

Call_primes_only_primality_test ==
    /\ CanCall
    /\ \E n \in 0..MaxPrimalityInput :
           Atomic("primes_only_primality_test", <<n>>,
                  primes_only_primality_test(n))

-----------------------------------------------------------------------------
(* Calls of the Miller-Rabin operations *)

OracleInputs == (1..MaxOracle) \cup {341}

Call_miller_rabin_witness_for_compositeness ==
    /\ CanCall
    /\ \E n \in OracleInputs : \E c \in randint_candidates(n) :
           Atomic("miller_rabin_witness_for_compositeness", <<n, c>>,
                  miller_rabin_witness_for_compositeness(n, c))

Call_miller_rabin_primality_test ==
    /\ CanCall
    /\ \E n \in OracleInputs : \E k \in {0, 1, DEFAULT_POTENTIAL_WITNESSES} :
           /\ op' = "miller_rabin_primality_test"
           /\ arg' = <<n, k>>
           /\ pc' = "oracle"
           /\ loc' = <<0, 0>>
           /\ ret' = NoneVal

\* the operations that start by asking miller_rabin_primality_test(N)
GuardedFactorizations ==
    {"pollard_rho_factorization", "pollard_p_1_factorization",
     "williams_p_1_factorization", "trial_division_factorization"}

\* while pc = "oracle": the number tested and the number of candidates to test
oracle_n == IF op = "miller_rabin_get_prime" THEN loc[3] ELSE arg[1]

num_potential_witnesses ==
    IF op = "miller_rabin_primality_test" THEN arg[2]
    ELSE DEFAULT_POTENTIAL_WITNESSES

\* while pc = "oracle", loc = <<tested, candidate>>: the number of candidates
\* tested so far without finding a witness, and the candidate tested last
\* (0 before the first)
tested == loc[1]

\* the locals while pc = "oracle": <<tested, candidate>>, followed for
\* miller_rabin_get_prime by its own locals n and i (the sample under test and
\* the number of rounds of its for loop completed)
oracle_locals(t, candidate) ==
    IF op = "miller_rabin_get_prime" THEN <<t, candidate, loc[3], loc[4]>>
    ELSE <<t, candidate>>

\* LoopEntry with the loop of trial_division_factorization written
\* range(2, integer_sqrt(N)): the square root itself is never tried
LoopEntry_exclusive_limit ==
    CASE op = "pollard_rho_factorization" ->
             <<arg[2], arg[3],
               Val(greatest_common_divisor(absolute_value(arg[3] - arg[2]), arg[1])), 0>>
      [] op = "pollard_p_1_factorization" -> <<arg[2], 2>>
      [] op = "williams_p_1_factorization" -> <<0, 2>>
      [] op = "trial_division_factorization" -> <<2, Val(integer_sqrt(arg[1])) - 1>>

\* the locals of the guarded factorization op when its loop starts
LoopEntry ==
    CASE op = "pollard_rho_factorization" ->
             <<arg[2], arg[3],
               Val(greatest_common_divisor(absolute_value(arg[3] - arg[2]), arg[1])), 0>>
      [] op = "pollard_p_1_factorization" -> <<arg[2], 2>>
      [] op = "williams_p_1_factorization" -> <<0, 2>>
      [] op = "trial_division_factorization" -> <<2, Val(integer_sqrt(arg[1]))>>

\* miller_rabin_primality_test gives verdict v (TRUE: probably prime): the test
\* returns it; miller_rabin_get_prime returns its sample n on TRUE and goes on
\* to draw the next sample on FALSE; a guarded factorization raises ValueError
\* on TRUE and enters its loop on FALSE
OracleVerdict(v, candidate) ==
    IF op = "miller_rabin_primality_test"
    THEN /\ Finish(Ok(v))
         /\ loc' = <<tested, candidate>>
    ELSE IF op = "miller_rabin_get_prime"
    THEN /\ loc' = oracle_locals(tested, candidate)
         /\ IF v THEN Finish(Ok(loc[3]))
            ELSE pc' = "loop" /\ UNCHANGED ret
    ELSE IF v THEN /\ Finish(Raise("ValueError"))
                   /\ loc' = <<tested, candidate>>
    ELSE /\ pc' = "loop"
         /\ loc' = LoopEntry
         /\ UNCHANGED ret

\* potentialWitnesses = [randint(2, n) ...] with n < 2: randint raises ValueError
Oracle_EmptyRange ==
    /\ pc = "oracle"
    /\ tested < num_potential_witnesses
    /\ randint_candidates(oracle_n) = {}
    /\ Finish(Raise("ValueError"))
    /\ UNCHANGED <<op, arg, loc>>

\* the next candidate of potentialWitnesses is tested: an exception of the
\* witness function leaves the test, a witness ends it with False
Oracle_Test ==
    /\ pc = "oracle"
    /\ tested < num_potential_witnesses
    /\ \E potentialWitness \in randint_candidates(oracle_n) :
          LET w == miller_rabin_witness_for_compositeness(oracle_n, potentialWitness)
          IN  IF IsRaise(w)
              THEN Finish(w) /\ loc' = oracle_locals(tested, potentialWitness)
              ELSE IF Val(w) THEN OracleVerdict(FALSE, potentialWitness)
              ELSE /\ loc' = oracle_locals(tested + 1, potentialWitness)
                   /\ UNCHANGED <<pc, ret>>
    /\ UNCHANGED <<op, arg>>

\* every candidate was tested and none was a witness: return True
Oracle_Accept ==
    /\ pc = "oracle"
    /\ tested = num_potential_witnesses
    /\ OracleVerdict(TRUE, loc[2])
    /\ UNCHANGED <<op, arg>>

-----------------------------------------------------------------------------
(* primality_tests.py: miller_rabin_get_prime *)

\* the call up to the first test: the limits are compared, the first sample
\* is drawn with randint(lower_limit, upper_limit), and the for loop starts
\* by asking the oracle about it; loc = <<tested, candidate, n, i>>
Call_miller_rabin_get_prime ==
    /\ CanCall
    /\ \E lower_limit \in 0..MaxPrimeRange : \E upper_limit \in 0..MaxPrimeRange :
           /\ op' = "miller_rabin_get_prime"
           /\ arg' = <<lower_limit, upper_limit>>
           /\ IF lower_limit > upper_limit
              THEN Finish(Raise("ValueError")) /\ loc' = NoLocals
              ELSE \E n \in lower_limit..upper_limit :
                      /\ pc' = "oracle"
                      /\ loc' = <<0, 0, n, 0>>
                      /\ ret' = NoneVal

\* the test of round i said False: n = randint(lower_limit, upper_limit) ends
\* the round; the next round tests the new sample, and after the last round
\* the function raises RuntimeError
GetPrime_Resample ==
    /\ op = "miller_rabin_get_prime"
    /\ pc = "loop"
    /\ \E n \in arg[1]..arg[2] :
           /\ loc' = <<0, 0, n, loc[4] + 1>>
           /\ IF loc[4] + 1 < GET_PRIME_MAX_ITERATIONS
              THEN pc' = "oracle" /\ UNCHANGED ret
              ELSE Finish(Raise("RuntimeError"))
    /\ UNCHANGED <<op, arg>>

-----------------------------------------------------------------------------
(* factorization_methods.py: the oracle-guarded factorizations *)

CompositeInputs == 0..MaxComposite

\* the starting values (x, y) pollard_rho_factorization is called with
RhoSeeds == {<<1, 2>>, <<2, 3>>}

\* the base a pollard_p_1_factorization is called with
P1Bases == {2, 3}

\* the call of a guarded factorization: its first statement asks the oracle
CallGuarded(name, a) ==
    /\ op' = name
    /\ arg' = a
    /\ pc' = "oracle"
    /\ loc' = <<0, 0>>
    /\ ret' = NoneVal

Call_pollard_rho_factorization ==
    /\ CanCall
    /\ \E t \in (CompositeInputs \X RhoSeeds) \cup {<<8051, <<1, 2>>>>} :
           CallGuarded("pollard_rho_factorization", <<t[1], t[2][1], t[2][2]>>)

Call_pollard_p_1_factorization ==
    /\ CanCall
    /\ \E N \in CompositeInputs : \E a \in P1Bases :
           CallGuarded("pollard_p_1_factorization", <<N, a>>)

Call_williams_p_1_factorization ==
    /\ CanCall
    /\ \E N \in CompositeInputs :
           CallGuarded("williams_p_1_factorization", <<N, 1000>>)

Call_trial_division_factorization ==
    /\ CanCall
    /\ \E N \in CompositeInputs :
           CallGuarded("trial_division_factorization", <<N>>)

\* x -> (x**2 + 1) % N
rho_step(x, N) == (x * x + 1) % N

\* one round of the for loop of pollard_rho_factorization; loc = <<x, y, g, i>>
Rho_Round ==
    /\ op = "pollard_rho_factorization"
    /\ pc = "loop"
    /\ loc[4] < RHO_MAX_ITERATIONS
    /\ LET N == arg[1]
           x == rho_step(loc[1], N)
           y == rho_step(rho_step(loc[2], N), N)
           g == greatest_common_divisor(absolute_value(y - x), N)
       IN  IF IsRaise(g) THEN Finish(g) /\ UNCHANGED loc
           ELSE IF Val(g) > 1 /\ Val(g) < N
                THEN /\ Finish(Ok(<<Val(g), N \div Val(g)>>))
                     /\ loc' = <<x, y, Val(g), loc[4]>>
                ELSE /\ loc' = <<x, y, Val(g), loc[4] + 1>>
                     /\ UNCHANGED <<pc, ret>>
    /\ UNCHANGED <<op, arg>>

\* the for loop of pollard_rho_factorization ran out: raise Exception
Rho_Exhausted ==
    /\ op = "pollard_rho_factorization"
    /\ pc = "loop"
    /\ loc[4] = RHO_MAX_ITERATIONS
    /\ Finish(Raise("Exception"))
    /\ UNCHANGED <<op, arg, loc>>

\* one round of the for loop of pollard_p_1_factorization (a = a^i mod N) or of
\* williams_p_1_factorization (a = 2^i mod N); loc = <<a, i>>
PMinusOne_Round ==
    /\ op \in {"pollard_p_1_factorization", "williams_p_1_factorization"}
    /\ pc = "loop"
    /\ loc[2] < UPPER_BOUND
    /\ LET N == arg[1]
           i == loc[2]
           a == fast_powering_algorithm(
                    IF op = "pollard_p_1_factorization" THEN loc[1] ELSE 2, i, N)
       IN  IF IsRaise(a) THEN Finish(a) /\ UNCHANGED loc
           ELSE LET d == greatest_common_divisor(Val(a) - 1, N)
                IN  IF IsRaise(d) THEN Finish(d) /\ loc' = <<Val(a), i>>
                    ELSE IF 1 < Val(d) /\ Val(d) < N
                         THEN /\ Finish(Ok(<<Val(d), N \div Val(d)>>))
                              /\ loc' = <<Val(a), i>>
                         ELSE /\ loc' = <<Val(a), i + 1>>
                              /\ UNCHANGED <<pc, ret>>
    /\ UNCHANGED <<op, arg>>

\* range(2, UPPER_BOUND) ran out: print the failure and return None
PMinusOne_Exhausted ==
    /\ op \in {"pollard_p_1_factorization", "williams_p_1_factorization"}
    /\ pc = "loop"
    /\ loc[2] = UPPER_BOUND
    /\ Finish(NoneVal)
    /\ UNCHANGED <<op, arg, loc>>

\* one round of the for loop of trial_division_factorization; loc = <<i, limit>>
\* with limit = integer_sqrt(N), the loop being range(2, limit + 1)
TrialDivision_Round ==
    /\ op = "trial_division_factorization"
    /\ pc = "loop"
    /\ loc[1] <= loc[2]
    /\ IF arg[1] % loc[1] = 0
       THEN Finish(Ok(<<loc[1], arg[1] \div loc[1]>>)) /\ UNCHANGED loc
       ELSE /\ loc' = <<loc[1] + 1, loc[2]>>
            /\ UNCHANGED <<pc, ret>>
    /\ UNCHANGED <<op, arg>>

\* the range ran out: print the failure and return None
TrialDivision_NotFound ==
    /\ op = "trial_division_factorization"
    /\ pc = "loop"
    /\ loc[1] > loc[2]
    /\ Finish(NoneVal)
    /\ UNCHANGED <<op, arg, loc>>

-----------------------------------------------------------------------------
(* factorization_methods.py: fermat_factorization *)

FermatInputs == (0..MaxFermat) \cup {5959}

\* the first candidate written a = integer_sqrt(n) + 1
fermat_first_candidate_from_n(n) ==
    LET r == integer_sqrt(n)
    IN  IF IsRaise(r) THEN r ELSE Ok(Val(r) + 1)

\* a = integer_sqrt(n-1) + 1, the first candidate of Fermat's method
fermat_first_candidate(n) ==
    LET r == integer_sqrt(n - 1)
    IN  IF IsRaise(r) THEN r ELSE Ok(Val(r) + 1)

\* the call of fermat_factorization up to the while loop: the validation, the
\* perfect-square case, and the first candidate; loc = <<a, b_squared, a0>>
\* where a0 remembers the first candidate
Call_fermat_factorization ==
    /\ CanCall
    /\ \E n \in FermatInputs :
           /\ op' = "fermat_factorization"
           /\ arg' = <<n>>
           /\ IF n <= 1 \/ n % 2 = 0
              THEN Finish(Raise("ValueError")) /\ loc' = NoLocals
              ELSE LET sq == is_square(n)
                       root == integer_sqrt(n)
                       a == fermat_first_candidate(n)
                   IN  IF IsRaise(sq) THEN Finish(sq) /\ loc' = NoLocals
                       ELSE IF Val(sq)
                            THEN /\ Finish(IF IsRaise(root) THEN root
                                           ELSE Ok(<<Val(root), Val(root)>>))
                                 /\ loc' = NoLocals
                       ELSE IF IsRaise(a) THEN Finish(a) /\ loc' = NoLocals
                       ELSE /\ pc' = "loop"
                            /\ loc' = <<Val(a), Val(a) * Val(a) - n, Val(a)>>
                            /\ ret' = NoneVal

\* while not is_square(b_squared): a = a + 1; b_squared = a*a - n
Fermat_Step ==
    /\ op = "fermat_factorization"
    /\ pc = "loop"
    /\ LET sq == is_square(loc[2])
       IN  IF IsRaise(sq) THEN Finish(sq) /\ UNCHANGED loc
           ELSE /\ ~Val(sq)
                /\ loc' = <<loc[1] + 1, (loc[1] + 1) * (loc[1] + 1) - arg[1], loc[3]>>
                /\ UNCHANGED <<pc, ret>>
    /\ UNCHANGED <<op, arg>>

\* the loop ends: return [a - integer_sqrt(b_squared), a + integer_sqrt(b_squared)]
Fermat_Return ==
    /\ op = "fermat_factorization"
    /\ pc = "loop"
    /\ LET sq == is_square(loc[2])
           b == integer_sqrt(loc[2])
       IN  /\ IsOk(sq)
           /\ Val(sq)
           /\ Finish(IF IsRaise(b) THEN b
                     ELSE Ok(<<loc[1] - Val(b), loc[1] + Val(b)>>))
    /\ UNCHANGED <<op, arg, loc>>

-----------------------------------------------------------------------------
(* factorization_methods.py: the outcomes of a call with the default arguments,
   as functions of N (the loops above, run to their end) *)

\* the outcomes miller_rabin_primality_test(n) can end with when it draws the
\* default number of candidates: an exception of the witness function, False
\* when some candidate is reported a witness, True when some candidate is not
\* (every draw can give that candidate)
oracle_outcomes(n) ==
    IF randint_candidates(n) = {} THEN {Raise("ValueError")}
    ELSE LET verdicts == {miller_rabin_witness_for_compositeness(n, c) :
                             c \in randint_candidates(n)}
         IN  {w \in verdicts : IsRaise(w)}
                 \cup (IF Ok(TRUE) \in verdicts THEN {Ok(FALSE)} ELSE {})
                 \cup (IF Ok(FALSE) \in verdicts THEN {Ok(TRUE)} ELSE {})

RECURSIVE rho_loop(_, _, _, _)
\* the for loop of pollard_rho_factorization from round i on
rho_loop(N, x, y, i) ==
    IF i = RHO_MAX_ITERATIONS THEN Raise("Exception")
    ELSE LET x1 == rho_step(x, N)
             y1 == rho_step(rho_step(y, N), N)
             g == greatest_common_divisor(absolute_value(y1 - x1), N)
         IN  IF IsRaise(g) THEN g
             ELSE IF Val(g) > 1 /\ Val(g) < N
                  THEN Ok(<<Val(g), N \div Val(g)>>)
             ELSE rho_loop(N, x1, y1, i + 1)

RECURSIVE p_minus_one_loop(_, _, _, _)
\* the for loop of pollard_p_1_factorization (base a) or, with williams, of
\* williams_p_1_factorization (base 2) from exponent i on
p_minus_one_loop(N, a, i, williams) ==
    IF i = UPPER_BOUND THEN NoneVal
    ELSE LET a1 == fast_powering_algorithm(IF williams THEN 2 ELSE a, i, N)
         IN  IF IsRaise(a1) THEN a1
             ELSE LET d == greatest_common_divisor(Val(a1) - 1, N)
                  IN  IF IsRaise(d) THEN d
                      ELSE IF 1 < Val(d) /\ Val(d) < N
                           THEN Ok(<<Val(d), N \div Val(d)>>)
                      ELSE p_minus_one_loop(N, Val(a1), i + 1, williams)

RECURSIVE trial_division_loop(_, _, _)
\* the for loop of trial_division_factorization from divisor i on
trial_division_loop(N, i, limit) ==
    IF i > limit THEN NoneVal
    ELSE IF N % i = 0 THEN Ok(<<i, N \div i>>)
    ELSE trial_division_loop(N, i + 1, limit)

RECURSIVE fermat_loop(_, _, _)
\* the while loop of fermat_factorization and the return after it
fermat_loop(n, a, b_squared) ==
    LET sq == is_square(b_squared)
        b == integer_sqrt(b_squared)
    IN  IF IsRaise(sq) THEN sq
        ELSE IF Val(sq) THEN (IF IsRaise(b) THEN b
                              ELSE Ok(<<a - Val(b), a + Val(b)>>))
        ELSE fermat_loop(n, a + 1, (a + 1) * (a + 1) - n)

\* fermat_factorization(n)
fermat_outcome(n) ==
    IF n <= 1 \/ n % 2 = 0 THEN Raise("ValueError")
    ELSE LET sq == is_square(n)
             root == integer_sqrt(n)
             a == fermat_first_candidate(n)
         IN  IF IsRaise(sq) THEN sq
             ELSE IF Val(sq) THEN (IF IsRaise(root) THEN root
                                   ELSE Ok(<<Val(root), Val(root)>>))
             ELSE IF IsRaise(a) THEN a
             ELSE fermat_loop(n, Val(a), Val(a) * Val(a) - n)

\* the outcome of the loop of the guarded factorization algo on N, with the
\* defaults x = 1, y = 2 of pollard_rho_factorization and the base a = 2
loop_outcome(algo, N) ==
    CASE algo = "pollard_rho" -> rho_loop(N, 1, 2, 0)
      [] algo = "pollard_p_1" -> p_minus_one_loop(N, 2, 2, FALSE)
      [] algo = "williams_p_1" -> p_minus_one_loop(N, 2, 2, TRUE)
      [] algo = "trial_division" ->
             trial_division_loop(N, 2, Val(integer_sqrt(N)))

\* the outcomes a call of the algorithm on N can end with: a guarded
\* factorization ends with an exception of the oracle, with ValueError when the
\* oracle says probably prime, or with the outcome of its loop
direct_outcomes(algo, N) ==
    IF algo = "fermat" THEN {fermat_outcome(N)}
    ELSE {r \in oracle_outcomes(N) : IsRaise(r)}
             \cup (IF Ok(TRUE) \in oracle_outcomes(N)
                   THEN {Raise("ValueError")} ELSE {})
             \cup (IF Ok(FALSE) \in oracle_outcomes(N)
                   THEN {loop_outcome(algo, N)} ELSE {})

-----------------------------------------------------------------------------
(* cryptanalytic_attacks.py: evaluate_public_key *)

\* the identifiers evaluate_public_key is called with
AlgorithmIds == VALID_ALGORITHMS \cup {"continued_fraction", "bogus"}

AlgorithmLists == UNION {[1..len -> AlgorithmIds] : len \in 0..MaxAlgorithms}

\* the numbers and identifiers factorization_attack is called with
AttackInputs == {0, 4, 15} \X AlgorithmIds

\* a call of factorization_attack(n, algo); the selected algorithm would be
\* called with (n, max_iterations) if the dictionary could be built
Call_factorization_attack ==
    /\ CanCall
    /\ \E t \in AttackInputs :
           Atomic("factorization_attack", t, factorization_attack(t[1], t[2]))

\* the moduli and exponents evaluate_public_key is called with
KeyInputs == ({-1, 0, 15} \X {-1, 0, 3}) \cup {<<10, 19>>}

\* a Python dict as the sequence of its <<key, value>> items, in insertion order
RECURSIVE dict_has(_, _)
dict_has(d, key) ==
    IF d = <<>> THEN FALSE
    ELSE Head(d)[1] = key \/ dict_has(Tail(d), key)

\* d[key] = value: replaces the value of a key the dict has, appends a new key
dict_set(d, key, value) ==
    IF dict_has(d, key)
    THEN [j \in 1..Len(d) |-> IF d[j][1] = key THEN <<key, value>> ELSE d[j]]
    ELSE Append(d, <<key, value>>)

\* the keys of the dict
dict_keys(d) == {d[j][1] : j \in 1..Len(d)}

\* d[key], for a key the dict has
dict_get(d, key) == d[CHOOSE j \in 1..Len(d) : d[j][1] = key][2]

\* the call of evaluate_public_key with the check of public_exponent left out
Call_evaluate_public_key_modulus_only ==
    /\ CanCall
    /\ \E key \in KeyInputs : \E algorithms \in AlgorithmLists :
           /\ op' = "evaluate_public_key"
           /\ arg' = <<key[1], key[2], algorithms>>
           /\ IF key[1] <= 0
              THEN Finish(Raise("ValueError")) /\ loc' = NoLocals
              ELSE /\ pc' = "loop"
                   /\ loc' = <<<<>>, 1, <<>>>>
                   /\ ret' = NoneVal

\* the call of evaluate_public_key up to its for loop: the validation of the
\* key, then results = {}; loc = <<results, next, invoked>>, next being the
\* 1-based index of the next algorithm and invoked the algorithms called so far
Call_evaluate_public_key ==
    /\ CanCall
    /\ \E key \in KeyInputs : \E algorithms \in AlgorithmLists :
           /\ op' = "evaluate_public_key"
           /\ arg' = <<key[1], key[2], algorithms>>
           /\ IF key[1] <= 0 \/ key[2] <= 0
              THEN Finish(Raise("ValueError")) /\ loc' = NoLocals
              ELSE /\ pc' = "loop"
                   /\ loc' = <<<<>>, 1, <<>>>>
                   /\ ret' = NoneVal

\* the round of the for loop without its try/except: an exception of
\* factorization_attack leaves evaluate_public_key
Evaluate_Attack_without_except ==
    /\ op = "evaluate_public_key"
    /\ pc = "loop"
    /\ loc[2] <= Len(arg[3])
    /\ LET algorithm == arg[3][loc[2]]
           r == factorization_attack(arg[1], algorithm)
       IN  IF IsRaise(r) THEN Finish(r) /\ UNCHANGED loc
           ELSE /\ loc' = <<dict_set(loc[1], algorithm, r), loc[2] + 1,
                            Append(loc[3], algorithm)>>
                /\ UNCHANGED <<pc, ret>>
    /\ UNCHANGED <<op, arg>>

\* one round of the for loop: results[algorithm] is the result of
\* factorization_attack, or the exception it raised
Evaluate_Attack ==
    /\ op = "evaluate_public_key"
    /\ pc = "loop"
    /\ loc[2] <= Len(arg[3])
    /\ LET algorithm == arg[3][loc[2]]
           r == factorization_attack(arg[1], algorithm)
       IN  loc' = <<dict_set(loc[1], algorithm, r), loc[2] + 1,
                    IF Kind(r) = "invoke" THEN Append(loc[3], algorithm) ELSE loc[3]>>
    /\ UNCHANGED <<op, arg, pc, ret>>

\* return results
Evaluate_Return ==
    /\ op = "evaluate_public_key"
    /\ pc = "loop"
    /\ loc[2] > Len(arg[3])
    /\ Finish(Ok(loc[1]))
    /\ UNCHANGED <<op, arg, loc>>

-----------------------------------------------------------------------------
(* The specification *)

Next ==
    \/ Return
    \/ Call_integer_sqrt
    \/ Call_fast_powering_algorithm
    \/ Call_is_square
    \/ Call_greatest_common_divisor
    \/ Call_find_modular_inverse
    \/ Call_chinese_remainder_theorem
    \/ Call_sieve_of_eratosthenes
    \/ Call_continued_fraction_factorization
    \/ Call_miller_rabin_get_prime
    \/ GetPrime_Resample
    \/ Call_miller_rabin_witness_for_compositeness
    \/ Call_miller_rabin_primality_test
    \/ Oracle_EmptyRange
    \/ Oracle_Test
    \/ Oracle_Accept
    \/ Call_pollard_rho_factorization
    \/ Call_pollard_p_1_factorization
    \/ Call_williams_p_1_factorization
    \/ Call_trial_division_factorization
    \/ Rho_Round
    \/ Rho_Exhausted
    \/ PMinusOne_Round
    \/ PMinusOne_Exhausted
    \/ TrialDivision_Round
    \/ TrialDivision_NotFound
    \/ Call_fermat_factorization
    \/ Fermat_Step
    \/ Fermat_Return
    \/ Call_get_continued_fraction_convergents
    \/ Call_trial_division_primality_test
    \/ Call_sixk_plus_one_primality_test
    \/ Call_primes_only_primality_test
    \/ Call_factorization_attack
    \/ Call_evaluate_public_key
    \/ Evaluate_Attack
    \/ Evaluate_Return

Spec == Init /\ [][Next]_vars

-----------------------------------------------------------------------------
(* Reference notions the properties are stated with *)

Done(name) == op = name /\ pc = "done"

IsComposite(n) == n >= 2 /\ \E d \in 2..(n - 1) : n % d = 0

Divides(d, n) == n % d = 0

\* the greatest common divisor, by its definition
Gcd(a, b) == CHOOSE d \in 1..a : Divides(d, a) /\ Divides(d, b)
                 /\ \A f \in (d + 1)..a : ~(Divides(f, a) /\ Divides(f, b))

IsPerfectSquare(m) == \E r \in 0..m : r * r = m

\* the floor of the square root, by its definition
FloorSqrt(m) == CHOOSE r \in 0..m : r * r <= m /\ m < (r + 1) * (r + 1)

\* the ceiling of the square root
CeilSqrt(m) == IF IsPerfectSquare(m) THEN FloorSqrt(m) ELSE FloorSqrt(m) + 1

RECURSIVE naive_power_mod(_, _, _)
\* base^exponent mod modulus by repeated multiplication: the product of
\* exponent factors base, reduced modulo modulus after every multiplication
\* (the factors are grouped in halves to keep the evaluation shallow)
naive_power_mod(base, exponent, modulus) ==
    IF exponent = 0 THEN 1 % modulus
    ELSE IF exponent = 1 THEN base % modulus
    ELSE (naive_power_mod(base, exponent \div 2, modulus)
          * naive_power_mod(base, exponent - exponent \div 2, modulus)) % modulus

\* a pair <<p, q>> is a non-trivial factorization of n
NontrivialPair(pair, n) ==
    /\ pair[1] * pair[2] = n
    /\ 1 < pair[1] /\ pair[1] < n
    /\ 1 < pair[2] /\ pair[2] < n

-----------------------------------------------------------------------------
(* C1 *)

FactorizationOps ==
    GuardedFactorizations \cup
        {"fermat_factorization", "continued_fraction_factorization"}

\* the number a factorization operation is asked to factor
factored_number ==
    IF op = "continued_fraction_factorization" THEN arg[2] ELSE arg[1]

\* C1: whenever a factorization algorithm returns a pair (p, q) for a composite
\* n, then p * q = n, 1 < p < n and 1 < q < n.
C1_ReturnedPairIsNontrivial ==
    (/\ op \in FactorizationOps
     /\ pc = "done"
     /\ IsOk(ret)
     /\ IsComposite(factored_number))
        => NontrivialPair(Val(ret), factored_number)

-----------------------------------------------------------------------------
(* C2 *)

\* C2: for every non-negative n, r = integer_sqrt(n) is returned and is the
\* floor of the square root: r*r <= n < (r+1)*(r+1).
C2_IntegerSqrtIsFloor ==
    (Done("integer_sqrt") /\ arg[1] >= 0)
        => /\ IsOk(ret)
           /\ Val(ret) * Val(ret) <= arg[1]
           /\ arg[1] < (Val(ret) + 1) * (Val(ret) + 1)

-----------------------------------------------------------------------------
(* C3 *)

\* C3: for base >= 0, modulus >= 1 and exponent in 0..255,
\* fast_powering_algorithm(base, exponent, modulus) returns base^exponent mod
\* modulus as naive repeated multiplication computes it; exponent 0 gives
\* 1 mod modulus, and (2, 10, 1000) gives 24.
C3_FastPoweringMatchesNaive ==
    (/\ Done("fast_powering_algorithm")
     /\ arg[1] >= 0 /\ arg[2] \in 0..255 /\ arg[3] >= 1)
        => /\ IsOk(ret)
           /\ Val(ret) = naive_power_mod(arg[1], arg[2], arg[3])
           /\ (arg[2] = 0 => Val(ret) = 1 % arg[3])
           /\ (arg = <<2, 10, 1000>> => Val(ret) = 24)

\* the call (2, 10, 1000) has returned 24
C3_Witness ==
    /\ Done("fast_powering_algorithm")
    /\ arg = <<2, 10, 1000>>
    /\ IsOk(ret)
    /\ Val(ret) = 24

-----------------------------------------------------------------------------
(* C4 *)

\* C4: for every prime n and every sequence of candidates the test can draw,
\* miller_rabin_primality_test(n) returns true, and the candidates it can draw
\* lie in [2, n).
C4_PrimeIsNeverReportedComposite ==
    (Done("miller_rabin_primality_test") /\ IsPrime(arg[1]))
        => /\ IsOk(ret)
           /\ Val(ret) = TRUE
           /\ tested > 0 => (2 <= loc[2] /\ loc[2] < arg[1])

-----------------------------------------------------------------------------
(* C5 *)

\* n - 1 = 2^k * m with m odd: the pair <<k, m>>
TwoAdic(n) ==
    CHOOSE km \in (0..bit_length(n)) \X (1..n) :
        km[2] % 2 = 1 /\ Pow(2, km[1]) * km[2] = n - 1

\* c is a Miller-Rabin witness for the compositeness of the odd number n
IsMillerRabinWitness(n, c) ==
    \/ Gcd(n, c) # 1
    \/ LET k == TwoAdic(n)[1]
           m == TwoAdic(n)[2]
       IN  /\ naive_power_mod(c, m, n) # 1
           /\ \A j \in 0..(k - 1) : naive_power_mod(c, m * Pow(2, j), n) # n - 1

\* C5: for every odd n >= 3 and candidate c in [2, n),
\* miller_rabin_witness_for_compositeness(n, c) returns true exactly when
\* gcd(n, c) # 1 or, with n - 1 = 2^k * m and m odd, c^m mod n # 1 and no
\* c^(m * 2^j) mod n with 0 <= j < k equals n - 1; true for n = 341, c = 2.
C5_WitnessMatchesDefinition ==
    (/\ Done("miller_rabin_witness_for_compositeness")
     /\ arg[1] >= 3 /\ arg[1] % 2 = 1
     /\ arg[2] >= 2 /\ arg[2] < arg[1])
        => /\ IsOk(ret)
           /\ Val(ret) = IsMillerRabinWitness(arg[1], arg[2])
           /\ (arg = <<341, 2>> => Val(ret) = TRUE)

-----------------------------------------------------------------------------
(* C6 *)

\* the elements of a list
Elements(list) == {list[j] : j \in 1..Len(list)}

\* the identifiers the dispatcher or the documentation of evaluate_public_key
\* names; any other identifier is unsupported
NamedAlgorithms == VALID_ALGORITHMS \cup {"continued_fraction"}

\* C6: if an identifier given to evaluate_public_key is not a supported
\* algorithm, the call fails with the unsupported-algorithm error, no report is
\* returned and no factorization algorithm has been invoked.
C6_UnsupportedIdentifierFailsFast ==
    (/\ Done("evaluate_public_key")
     /\ arg[1] > 0 /\ arg[2] > 0
     /\ \E algorithm \in Elements(arg[3]) : algorithm \notin NamedAlgorithms)
        => /\ IsRaise(ret)
           /\ loc[3] = <<>>

-----------------------------------------------------------------------------
(* C7 *)

\* C7: for modulus > 0 and exponent > 0, evaluate_public_key returns a report
\* whose keys are exactly the requested identifiers, each mapped to the factor
\* pair or the captured failure of factorization_attack for that identifier
\* alone; a failure neither aborts the batch nor changes another entry.
C7_ReportKeyedByRequestedIdentifiers ==
    (/\ Done("evaluate_public_key")
     /\ arg[1] > 0 /\ arg[2] > 0)
        => /\ IsOk(ret)
           /\ dict_keys(Val(ret)) = Elements(arg[3])
           /\ Len(Val(ret)) = Cardinality(Elements(arg[3]))
           /\ \A algorithm \in Elements(arg[3]) :
                 /\ Kind(dict_get(Val(ret), algorithm)) \in {"ok", "raise"}
                 /\ dict_get(Val(ret), algorithm)
                        = factorization_attack(arg[1], algorithm)

\* a report of two entries was returned although both algorithms failed, the
\* first with an invalid identifier
C7_Witness ==
    /\ Done("evaluate_public_key")
    /\ arg[3] = <<"bogus", "trial_division">>
    /\ IsOk(ret)
    /\ Len(Val(ret)) = 2
    /\ IsRaise(dict_get(Val(ret), "bogus"))
    /\ IsRaise(dict_get(Val(ret), "trial_division"))

-----------------------------------------------------------------------------
(* C8 *)

\* C8: for every odd n > 1 fermat_factorization(n) terminates; it returns
\* (s, s) when n = s*s and otherwise (a - b, a + b) for the smallest
\* a >= ceil(sqrt(n)) with a*a - n a perfect square b*b; for n = 5959 it returns
\* (59, 101) after trying a = 78, 79, 80.  Termination: the candidate a only
\* grows, never passes (n + 1) / 2, and the loop can always step or return.
C8_FermatSmallestCandidate ==
    (op = "fermat_factorization" /\ arg[1] > 1 /\ arg[1] % 2 = 1)
        => LET n == arg[1]
           IN  /\ pc = "loop" =>
                     /\ loc[3] = CeilSqrt(n)
                     /\ loc[1] >= loc[3] /\ 2 * loc[1] <= n + 1
                     /\ loc[2] = loc[1] * loc[1] - n
                     /\ \A a \in loc[3]..(loc[1] - 1) : ~IsPerfectSquare(a * a - n)
                     /\ ENABLED (Fermat_Step \/ Fermat_Return)
               /\ pc = "done" =>
                     /\ IsOk(ret)
                     /\ IF IsPerfectSquare(n)
                        THEN Val(ret) = <<FloorSqrt(n), FloorSqrt(n)>>
                        ELSE /\ IsPerfectSquare(loc[2])
                             /\ Val(ret) = <<loc[1] - FloorSqrt(loc[2]),
                                             loc[1] + FloorSqrt(loc[2])>>
                             /\ \A a \in CeilSqrt(n)..(loc[1] - 1) :
                                   ~IsPerfectSquare(a * a - n)
                     /\ n = 5959 => /\ Val(ret) = <<59, 101>>
                                    /\ loc[3] = 78 /\ loc[1] = 80

\* fermat_factorization(5959) has returned (59, 101) with the last candidate 80
C8_Witness ==
    /\ Done("fermat_factorization")
    /\ arg[1] = 5959
    /\ IsOk(ret)
    /\ Val(ret) = <<59, 101>>
    /\ loc[1] = 80

-----------------------------------------------------------------------------
(* C9 *)

\* C9: pollard_rho_factorization on a composite N ends with [g, N // g] for a
\* g with 1 < g < N, or with the budget-exhausted failure after the maximum
\* number of rounds; for N = 8051 with the default seeds it returns a
\* non-trivial factor.
C9_RhoReturnsFactorOrExhausts ==
    (Done("pollard_rho_factorization") /\ IsComposite(arg[1]))
        => /\ \/ IsOk(ret) /\ NontrivialPair(Val(ret), arg[1])
              \/ ret = Raise("Exception") /\ loc[4] = RHO_MAX_ITERATIONS
           /\ arg = <<8051, 1, 2>> => IsOk(ret)

-----------------------------------------------------------------------------
(* C10 *)

\* C10: for every composite N, the loop of pollard_p_1_factorization and of
\* williams_p_1_factorization ends either with the pair (d, N / d) for a d
\* with 1 < d < N or with the budget-exhausted non-result after the last
\* exponent; no error escapes from the loop.
C10_PMinusOneLoopReturnsPairOrNone ==
    [][(/\ op \in {"pollard_p_1_factorization", "williams_p_1_factorization"}
        /\ IsComposite(arg[1])
        /\ pc = "loop"
        /\ pc' = "done")
           => \/ IsOk(ret') /\ NontrivialPair(Val(ret'), arg[1])
              \/ IsNone(ret') /\ loc[2] = UPPER_BOUND]_vars

-----------------------------------------------------------------------------
(* C11 *)

\* C11: for all positive e and N, continued_fraction_factorization(e, N) ends
\* either with a pair (p, q) with p * q = N or with the not-found result None;
\* no error escapes.
C11_ContinuedFractionPairOrNotFound ==
    (/\ Done("continued_fraction_factorization")
     /\ arg[1] >= 1
     /\ arg[2] >= 1)
        => \/ IsOk(ret) /\ Val(ret)[1] * Val(ret)[2] = arg[2]
           \/ IsNone(ret)

-----------------------------------------------------------------------------
(* C12 *)

\* the operations whose loop the model steps through round by round
LoopingFactorizations == GuardedFactorizations \cup {"fermat_factorization"}

\* the iteration budget of an operation: the maximum of its for loop where the
\* code has one; the default budget (that of pollard_rho_factorization) where
\* the claim gives the operation one and the code has none
iteration_budget ==
    IF op \in {"pollard_p_1_factorization", "williams_p_1_factorization"}
    THEN UPPER_BOUND
    ELSE RHO_MAX_ITERATIONS

\* the number of rounds of its loop the operation has completed
rounds_completed ==
    CASE op = "pollard_rho_factorization" -> loc[4]
      [] op \in {"pollard_p_1_factorization", "williams_p_1_factorization"} ->
             loc[2] - 2
      [] op = "trial_division_factorization" -> loc[1] - 2
      [] op = "fermat_factorization" -> loc[1] - loc[3]

\* C12: each factorization algorithm executes at most its own iteration
\* budget of loop rounds per invocation and ends with the budget-exhausted
\* failure instead of iterating further.
C12_RoundsWithinBudget ==
    (op \in LoopingFactorizations /\ pc = "loop")
        => rounds_completed <= iteration_budget

-----------------------------------------------------------------------------
(* C13 *)

\* C13: every factorization algorithm consults the primality oracle before its
\* first iteration (a call either fails in its argument validation or starts
\* with the oracle), and an oracle verdict of probably prime ends the call with
\* the compositeness-required error.
C13_OracleConsultedFirst ==
    [][/\ (pc = "idle" /\ op' \in FactorizationOps)
            => \/ pc' = "oracle"
               \/ pc' = "done" /\ IsRaise(ret')
       /\ (/\ op \in GuardedFactorizations
           /\ pc = "oracle"
           /\ tested = num_potential_witnesses)
            => pc' = "done" /\ ret' = Raise("ValueError")]_vars

-----------------------------------------------------------------------------
(* C14 *)

\* C14 as stated: for all a >= 1 and m >= 1, find_modular_inverse(a, m)
\* returns x with 0 <= x < m and (a * x) % m = 1 when gcd(a, m) = 1, and None
\* when gcd(a, m) # 1.
C14_InverseTimesAIsOne ==
    (Done("find_modular_inverse") /\ arg[1] >= 1 /\ arg[2] >= 1)
        => IF Gcd(arg[1], arg[2]) = 1
           THEN /\ IsOk(ret)
                /\ 0 <= Val(ret) /\ Val(ret) < arg[2]
                /\ (arg[1] * Val(ret)) % arg[2] = 1
           ELSE IsNone(ret)

\* C14 amended: for all a >= 1 and m >= 1, find_modular_inverse(a, m) returns
\* x with 0 <= x < m and (a * x) % m = 1 % m when gcd(a, m) = 1 (so x = 0 for
\* m = 1, where every residue is 0), and None when gcd(a, m) # 1.
C14_InverseTimesAIsOneModM ==
    (Done("find_modular_inverse") /\ arg[1] >= 1 /\ arg[2] >= 1)
        => IF Gcd(arg[1], arg[2]) = 1
           THEN /\ IsOk(ret)
                /\ 0 <= Val(ret) /\ Val(ret) < arg[2]
                /\ (arg[1] * Val(ret)) % arg[2] = 1 % arg[2]
           ELSE IsNone(ret)

C14_Witness ==
    /\ Done("find_modular_inverse")
    /\ arg = <<3, 7>>
    /\ ret = Ok(5)

-----------------------------------------------------------------------------
(* C15 *)

\* a sequence of numbers in strictly increasing order
StrictlyIncreasing(list) ==
    \A i \in 1..(Len(list) - 1) : list[i] < list[i + 1]

\* C15: for every limit >= 2, sieve_of_eratosthenes(limit) returns, in
\* increasing order and without duplicates, exactly the primes p < limit.
C15_SieveListsPrimesBelowLimit ==
    (Done("sieve_of_eratosthenes") /\ arg[1] >= 2)
        => /\ IsOk(ret)
           /\ StrictlyIncreasing(Val(ret))
           /\ Elements(Val(ret)) = {p \in 0..(arg[1] - 1) : IsPrime(p)}

C15_Witness ==
    /\ Done("sieve_of_eratosthenes")
    /\ arg = <<30>>
    /\ ret = Ok(<<2, 3, 5, 7, 11, 13, 17, 19, 23, 29>>)

-----------------------------------------------------------------------------
(* C16 *)

\* the least divisor of n greater than 1, for n >= 2
LeastDivisor(n) ==
    CHOOSE d \in 2..n : Divides(d, n) /\ \A f \in 2..(d - 1) : ~Divides(f, n)

\* C16: once the oracle check has let a composite N >= 4 into the loop,
\* trial_division_factorization returns [d, N // d] with d the least divisor of
\* N greater than 1 (so d <= N // d); it returns None only when N is prime.
C16_TrialDivisionLeastDivisor ==
    [][(/\ op = "trial_division_factorization"
        /\ pc = "loop"
        /\ pc' = "done")
           => /\ (IsComposite(arg[1]) /\ arg[1] >= 4)
                    => /\ IsOk(ret')
                       /\ Val(ret') = <<LeastDivisor(arg[1]),
                                        arg[1] \div LeastDivisor(arg[1])>>
                       /\ Val(ret')[1] <= Val(ret')[2]
              /\ IsNone(ret') => IsPrime(arg[1])]_vars

C16_Witness ==
    /\ Done("trial_division_factorization")
    /\ IsComposite(arg[1])
    /\ arg[1] >= 4
    /\ IsOk(ret)
    /\ Val(ret)[1] = LeastDivisor(arg[1])

-----------------------------------------------------------------------------
(* C17 *)

\* g is the greatest common divisor of a and b, not both 0
IsGreatestCommonDivisor(g, a, b) ==
    /\ g >= 1
    /\ Divides(g, a)
    /\ Divides(g, b)
    /\ \A d \in 1..(a + b) : (Divides(d, a) /\ Divides(d, b)) => d <= g

\* C17: for all non-negative a and b, greatest_common_divisor(a, b) returns the
\* greatest common divisor of a and b, with gcd(a, 0) = gcd(0, a) = a; the
\* result is 0 only when a = b = 0.
C17_GcdIsGreatestCommonDivisor ==
    (Done("greatest_common_divisor") /\ arg[1] >= 0 /\ arg[2] >= 0)
        => /\ IsOk(ret)
           /\ IF arg[1] = 0 /\ arg[2] = 0 THEN Val(ret) = 0
              ELSE IsGreatestCommonDivisor(Val(ret), arg[1], arg[2])
           /\ arg[1] = 0 => Val(ret) = arg[2]
           /\ arg[2] = 0 => Val(ret) = arg[1]

C17_Witness ==
    /\ Done("greatest_common_divisor")
    /\ arg = <<12, 8>>
    /\ ret = Ok(4)

-----------------------------------------------------------------------------
(* C18 *)

RECURSIVE ProductOf(_)
ProductOf(list) ==
    IF Len(list) = 0 THEN 1 ELSE Head(list) * ProductOf(Tail(list))

PairwiseCoprime(moduli) ==
    \A i \in 1..Len(moduli) : \A j \in 1..Len(moduli) :
        i # j => Gcd(moduli[i], moduli[j]) = 1

\* x leaves the remainder remainders[i] modulo moduli[i], for every i
SolvesCongruences(x, moduli, remainders) ==
    \A i \in 1..Len(moduli) : x % moduli[i] = remainders[i]

\* the arguments chinese_remainder_theorem requires
CrtPrecondition(moduli, remainders) ==
    /\ Len(moduli) = Len(remainders)
    /\ \A i \in 1..Len(moduli) :
           moduli[i] >= 1 /\ 0 <= remainders[i] /\ remainders[i] < moduli[i]
    /\ PairwiseCoprime(moduli)

-----------------------------------------------------------------------------
(* C19 *)

\* C19: for every non-negative n, 0 included, is_square(n) returns a value,
\* and the value is true exactly when n = k * k for some k >= 0.
C19_IsSquareDecidesSquares ==
    (Done("is_square") /\ arg[1] >= 0)
        => IsOk(ret) /\ (Val(ret) <=> IsPerfectSquare(arg[1]))

-----------------------------------------------------------------------------
(* C20 *)

\* C20: every call miller_rabin_get_prime(low, high) with low <= high ends
\* after at most the maximum number of oracle tests, either returning the
\* sample n, low <= n <= high, that the oracle accepted on the test just
\* before, or with the exhausted-attempts error.
C20_GetPrimeReturnsAcceptedOrExhausts ==
    /\ (op = "miller_rabin_get_prime" /\ pc \in {"oracle", "loop"})
           => loc[4] < GET_PRIME_MAX_ITERATIONS
    /\ (Done("miller_rabin_get_prime") /\ arg[1] <= arg[2])
           => \/ /\ IsOk(ret)
                 /\ Val(ret) = loc[3]
                 /\ arg[1] <= Val(ret) /\ Val(ret) <= arg[2]
                 /\ tested = DEFAULT_POTENTIAL_WITNESSES
              \/ /\ ret = Raise("RuntimeError")
                 /\ loc[4] = GET_PRIME_MAX_ITERATIONS

-----------------------------------------------------------------------------
(* C21 *)

\* the candidates c in [2, n) the witness function calls non-witnesses of n
NonWitnesses(n) ==
    {c \in 2..(n - 1) : miller_rabin_witness_for_compositeness(n, c) = Ok(FALSE)}

-----------------------------------------------------------------------------
(* C22 *)

\* C22 as stated: only the low 8 binary digits of the exponent are processed,
\* so for an exponent >= 256 the result is the power for the exponent reduced
\* to its low 8 digits.
C22_ExponentTruncatedToEightBits ==
    (/\ Done("fast_powering_algorithm")
     /\ arg[2] >= 256
     /\ arg[3] >= 1)
        => /\ Len(exponent_bits(arg[2])) = 8
           /\ ret = Ok(naive_power_mod(arg[1], arg[2] % 256, arg[3]))

\* C22 amended: the format pads the exponent to at least 8 binary digits and
\* never truncates it: for an exponent >= 256 every binary digit is processed
\* and the result equals base^exponent mod modulus.
C22_LargeExponentKeepsAllDigits ==
    (/\ Done("fast_powering_algorithm")
     /\ arg[2] >= 256
     /\ arg[3] >= 1)
        => /\ Len(exponent_bits(arg[2])) = bit_length(arg[2])
           /\ ret = Ok(naive_power_mod(arg[1], arg[2], arg[3]))

C22_Witness ==
    /\ Done("fast_powering_algorithm")
    /\ arg = <<2, 300, 1000>>
    /\ ret = Ok(376)

-----------------------------------------------------------------------------
(* C23 *)

\* C23: evaluate_public_key fails with the invalid-argument error whenever
\* modulus <= 0 or exponent <= 0: the call never enters its loop, no
\* factorization algorithm is invoked and no report is returned.
C23_InvalidKeyIsRejected ==
    (/\ op = "evaluate_public_key"
     /\ (arg[1] <= 0 \/ arg[2] <= 0))
        => /\ pc = "done"
           /\ ret = Raise("ValueError")
           /\ loc = NoLocals

C23_Witness ==
    /\ Done("evaluate_public_key")
    /\ arg = <<15, -1, <<"fermat", "trial_division">>>>
    /\ ret = Raise("ValueError")

-----------------------------------------------------------------------------
(* C24 *)

\* C24: for every limit < 2 (1, 0 and negative values),
\* sieve_of_eratosthenes(limit) returns the empty sequence and raises no error.
C24_SieveBelowTwoIsEmpty ==
    (Done("sieve_of_eratosthenes") /\ arg[1] < 2) => ret = Ok(<<>>)

-----------------------------------------------------------------------------
(* C25 *)

\* the algorithms the dispatcher names without an implementation behind them
UnimplementedAlgorithms ==
    {"quadratic_sieve", "shanks_square_forms", "rational_sieve",
     "general_number_field_sieve"}

\* the outcome of a request that is rejected as unsupported or answered with
\* an explicit not-implemented failure
RejectedOrNotImplemented(r) ==
    r \in {Raise("ValueError"), Raise("NotImplementedError")}

\* C25: requesting a named-but-unimplemented algorithm through
\* factorization_attack or evaluate_public_key never yields a factor pair: the
\* identifier is rejected as unsupported or its outcome is an explicit
\* not-implemented failure.
C25_UnimplementedNeverYieldsPair ==
    /\ (/\ Done("factorization_attack")
        /\ arg[1] > 0
        /\ arg[2] \in UnimplementedAlgorithms)
           => RejectedOrNotImplemented(ret)
    /\ (Done("evaluate_public_key") /\ IsOk(ret))
           => \A algorithm \in Elements(arg[3]) \cap UnimplementedAlgorithms :
                  RejectedOrNotImplemented(dict_get(Val(ret), algorithm))

-----------------------------------------------------------------------------
(* C26 *)

\* the algorithms of the dispatcher that have an implementation
ImplementedAlgorithms ==
    {"trial_division", "fermat", "pollard_rho", "pollard_p_1", "williams_p_1"}

\* the function a dispatcher identifier stands for
function_of(algo) ==
    CASE algo = "trial_division" -> "trial_division_factorization"
      [] algo = "fermat" -> "fermat_factorization"
      [] algo = "pollard_rho" -> "pollard_rho_factorization"
      [] algo = "pollard_p_1" -> "pollard_p_1_factorization"
      [] algo = "williams_p_1" -> "williams_p_1_factorization"

\* the calls of the factorization functions with their default arguments end
\* with one of the outcomes direct_outcomes gives
DirectOutcomesAgree ==
    \A algo \in ImplementedAlgorithms :
        (/\ Done(function_of(algo))
         /\ algo = "pollard_rho" => (arg[2] = 1 /\ arg[3] = 2)
         /\ algo = "pollard_p_1" => arg[2] = 2)
            => ret \in direct_outcomes(algo, arg[1])

\* C26: factorization_attack(n, algo) ends with the same outcome as calling
\* the selected algorithm directly on n with its default starting parameters,
\* for each of trial_division, fermat, pollard_rho, pollard_p_1, williams_p_1.
C26_DispatcherMatchesDirectCall ==
    (/\ Done("factorization_attack")
     /\ arg[1] > 0
     /\ arg[2] \in ImplementedAlgorithms)
        => ret \in direct_outcomes(arg[2], arg[1])

-----------------------------------------------------------------------------
(* C27 *)

\* the report entry the continued-fraction attack on (exponent, modulus)
\* gives: its pair, or the not-found failure factorization_attack makes of None
continued_fraction_entry(exponent, modulus) ==
    LET r == continued_fraction_factorization(exponent, modulus)
    IN  IF IsNone(r) THEN Raise("Exception") ELSE r

\* C27: evaluate_public_key accepts the identifier continued_fraction and runs
\* the continued-fraction attack on (exponent, modulus): the report entry is
\* that attack's pair or its not-found failure.
C27_ContinuedFractionEntry ==
    (/\ Done("evaluate_public_key")
     /\ arg[1] > 0 /\ arg[2] > 0
     /\ "continued_fraction" \in Elements(arg[3]))
        => /\ IsOk(ret)
           /\ dict_get(Val(ret), "continued_fraction")
                  = continued_fraction_entry(arg[2], arg[1])
           /\ Kind(dict_get(Val(ret), "continued_fraction")) = "ok"
                  \/ dict_get(Val(ret), "continued_fraction") = Raise("Exception")

-----------------------------------------------------------------------------
(* C28 *)

DeterministicPrimalityTests ==
    {"trial_division_primality_test", "sixk_plus_one_primality_test",
     "primes_only_primality_test"}

\* C28: for every n >= 2 the three deterministic primality tests return the
\* same verdict, which is true exactly when n is prime.
C28_PrimalityTestsAgreeWithPrimality ==
    (/\ op \in DeterministicPrimalityTests
     /\ pc = "done"
     /\ arg[1] >= 2)
        => /\ ret = Ok(IsPrime(arg[1]))
           /\ trial_division_primality_test(arg[1])
                  = sixk_plus_one_primality_test(arg[1])
           /\ sixk_plus_one_primality_test(arg[1])
                  = primes_only_primality_test(arg[1])

-----------------------------------------------------------------------------
(* C29 *)

\* C29: for an RSA key N = p * q with q < p < 2q, 1 < e < phi(N),
\* e * d mod phi(N) = 1 and d < N^(1/4) / 3,
\* continued_fraction_factorization(e, N) returns a pair that is {p, q}.
C29_SmallPrivateExponentIsFactored ==
    Done("continued_fraction_factorization")
        => \A w \in WienerInstances :
               WienerKey(w) = arg
                   => /\ IsOk(ret)
                      /\ Len(Val(ret)) = 2
                      /\ {Val(ret)[1], Val(ret)[2]} = {w[1], w[2]}

C29_Witness ==
    /\ Done("continued_fraction_factorization")
    /\ arg \in WienerKeys
    /\ IsOk(ret)
    /\ Val(ret)[1] * Val(ret)[2] = arg[2]
    /\ Val(ret)[2] > 1

-----------------------------------------------------------------------------
(* C30 *)

\* C30: for all positive num and denom the expansion of num/denom ends, and
\* get_continued_fraction_convergents gives one convergent (h, k) per term of
\* it, the last being num/denom in lowest terms: h * denom = k * num and
\* gcd(h, k) = 1.
C30_ConvergentsEndAtTheFraction ==
    (/\ Done("get_continued_fraction_convergents")
     /\ arg[1] >= 1
     /\ arg[2] >= 1)
        => /\ IsOk(ret)
           /\ Len(Val(ret))
                  = Len(Val(continued_fraction_expansion(arg[1], arg[2])))
           /\ LET last == Val(ret)[Len(Val(ret))]
              IN  /\ last[1] * arg[2] = last[2] * arg[1]
                  /\ Gcd(last[1], last[2]) = 1

=============================================================================
